---- MODULE Spec2Model ----
(***************************************************************************)
(* A model of the MCP server of mcp-server-canyon.  The repository ships   *)
(* three variants of the server:                                           *)
(*   main.py         FastMCP tools search / fetch over the assistant API   *)
(*   main_flask.py   the same tools behind Flask routes                    *)
(*   main_simple.py  mock search / fetch plus the mock OAuth 2.0 endpoints *)
(* One of them is deployed (variable server); every action is one request  *)
(* handled from start to end.                                              *)
(*                                                                         *)
(* Python values: None and an absent parameter are the value None below.   *)
(* The parameters of the OAuth routes are TLA+ strings.  Every str of      *)
(* search and fetch is a sequence: of its characters when they matter (a   *)
(* text that is sliced, an id whose prefix is tested, an exception message *)
(* whose length counts, the text of a search result), of the pieces an     *)
(* f-string joins otherwise (titles, urls, the texts of a Document).       *)
(***************************************************************************)
EXTENDS Integers, Sequences, FiniteSets, TLC

VARIABLES
    server,          \* which variant is deployed
    temp_auth_code,  \* app.config['temp_auth_code'] of main_simple; None when the key is absent
    request,         \* the request handled last
    response,        \* the answer to it
    calls,           \* the external API calls the last handler made, in order
    invoked,         \* the tool handlers the last request entered
    conc,            \* the token requests in flight, when requests are handled concurrently
    before,          \* history: temp_auth_code when the last request arrived
    issued,          \* history: the codes the redirects of authorize carried, since the
                     \* last granted token that came before the latest of them
    spent,           \* history: a token was granted since the latest successful authorize
    prev             \* history: what the request before the last one was

vars == <<server, temp_auth_code, request, response, calls, invoked, conc, before, issued,
          spent, prev>>

\* Python None; also the marker of a parameter that is not sent.
None == "<None>"

---------------------------------------------------------------------------
(* Bounds of the model *)

\* how many handed-out codes the history keeps
MaxIssued == 2

\* the longest text of an assistant message
MaxTextLen == 502

\* the longest exception message
MaxErrLen == 470

---------------------------------------------------------------------------
(* Generic helpers *)

\* dict.get(key, default) on a mapping with the sent keys as its domain
Get(d, k, default) == IF k \in DOMAIN d THEN d[k] ELSE default

\* the mapping of the parameters that are really sent (None marks "not sent")
Sent(f) == [k \in {x \in DOMAIN f : f[x] # None} |-> f[k]]

\* str(x) inside an f-string
PyStr(x) == IF x = None THEN "None" ELSE x

\* keep the last n elements of s
LastN(s, n) == IF Len(s) <= n THEN s ELSE SubSeq(s, Len(s) - n + 1, Len(s))

---------------------------------------------------------------------------
(* main_simple.py: mock OAuth 2.0 *)

CLIENT_ID == "mcp-server-canyon"
CLIENT_SECRET == "mcp-server-canyon-secret"
mock_auth_code == "mcp_auth_code_canyon_123456"
access_token == "mcp_access_token_canyon_abcdef123456"
refresh_token == "mcp_refresh_token_canyon_ghijkl789012"
expires_in == 3600

\* the value of the code parameter in the query string of a redirect location
CodeParam(location) ==
    LET i == CHOOSE j \in 1..Len(location) : location[j] = "code="
    IN  location[i + 1]

\* jsonify({"error": "Invalid client_id or response_type"}), 400
AuthorizeRejected == [status |-> 400, body |-> [error |-> "Invalid client_id or response_type"]]

\* redirect(f"{redirect_uri}?{redirect_params}")
Redirect(redirect_uri, code, state) ==
    [status |-> 302,
     location |-> <<PyStr(redirect_uri), "?", "code=", code>>
                  \o (IF state # "" THEN <<"&state=", state>> ELSE <<>>)]

\* a bug: a new code for every authorization
oauth_authorize_fresh_code(args, slot) ==
    LET code == IF slot = None THEN mock_auth_code ELSE "mcp_auth_code_canyon_654321"
    IN  IF Get(args, "client_id", None) # CLIENT_ID \/ Get(args, "response_type", None) # "code"
        THEN [response |-> AuthorizeRejected, slot |-> slot]
        ELSE [response |-> Redirect(Get(args, "redirect_uri", None), code, Get(args, "state", "")),
              slot |-> code]

\* a bug: the redirect_uri is required
oauth_authorize_needs_redirect_uri(args, slot) ==
    IF \/ Get(args, "client_id", None) # CLIENT_ID
       \/ Get(args, "response_type", None) # "code"
       \/ Get(args, "redirect_uri", None) = None
    THEN [response |-> AuthorizeRejected, slot |-> slot]
    ELSE [response |-> Redirect(Get(args, "redirect_uri", None), mock_auth_code,
                                Get(args, "state", "")),
          slot |-> mock_auth_code]

\* a bug: "and" for "or" in the validation
oauth_authorize_and(args, slot) ==
    IF Get(args, "client_id", None) # CLIENT_ID /\ Get(args, "response_type", None) # "code"
    THEN [response |-> AuthorizeRejected, slot |-> slot]
    ELSE [response |-> Redirect(Get(args, "redirect_uri", None), mock_auth_code,
                                Get(args, "state", "")),
          slot |-> mock_auth_code]

\* a bug: the code is stored before the client is checked
oauth_authorize_stores_first(args, slot) ==
    IF Get(args, "client_id", None) # CLIENT_ID \/ Get(args, "response_type", None) # "code"
    THEN [response |-> AuthorizeRejected, slot |-> mock_auth_code]
    ELSE [response |-> Redirect(Get(args, "redirect_uri", None), mock_auth_code,
                                Get(args, "state", "")),
          slot |-> mock_auth_code]

\* GET /oauth/authorize: the response and the slot after it
oauth_authorize(args, slot) ==
    LET client_id == Get(args, "client_id", None)
        redirect_uri == Get(args, "redirect_uri", None)
        response_type == Get(args, "response_type", None)
        scope == Get(args, "scope", "")
        state == Get(args, "state", "")
    IN  IF client_id # CLIENT_ID \/ response_type # "code"
        THEN [response |-> AuthorizeRejected, slot |-> slot]
        ELSE [response |-> Redirect(redirect_uri, mock_auth_code, state),
              slot |-> mock_auth_code]

\* jsonify({"error": "invalid_grant"}), 400
InvalidGrant == [status |-> 400, body |-> [error |-> "invalid_grant"]]

\* the token payload, HTTP 200
TokenPayload ==
    [status |-> 200,
     body |-> [access_token |-> access_token, token_type |-> "Bearer",
               expires_in |-> expires_in, refresh_token |-> refresh_token,
               scope |-> "read write"]]

\* the validation of a token request against the slot
TokenRequestInvalid(form, slot) ==
    \/ Get(form, "grant_type", None) # "authorization_code"
    \/ Get(form, "code", None) # slot
    \/ Get(form, "client_id", None) # CLIENT_ID
    \/ Get(form, "client_secret", None) # CLIENT_SECRET

\* a bug: the code is not cleared after use
oauth_token_keeps_code(form, slot) ==
    IF TokenRequestInvalid(form, slot)
    THEN [response |-> InvalidGrant, slot |-> slot]
    ELSE [response |-> TokenPayload, slot |-> slot]

\* a bug: the code is cleared before the request is validated
oauth_token_clears_first(form, slot) ==
    IF TokenRequestInvalid(form, slot)
    THEN [response |-> InvalidGrant, slot |-> None]
    ELSE [response |-> TokenPayload, slot |-> None]

\* POST /oauth/token: the response and the slot after it
oauth_token(form, slot) ==
    IF TokenRequestInvalid(form, slot)
    THEN [response |-> InvalidGrant, slot |-> slot]
    ELSE [response |-> TokenPayload, slot |-> None]

---------------------------------------------------------------------------
(* Python str helpers *)

\* str.startswith
StartsWith(s, p) == Len(s) >= Len(p) /\ SubSeq(s, 1, Len(p)) = p

\* hasattr on an object given as a record
HasAttr(x, a) == a \in DOMAIN x

\* the decimal digits of a natural number, as str(n) gives them
Digit(d) == <<"0", "1", "2", "3", "4", "5", "6", "7", "8", "9">>[d + 1]

RECURSIVE IntStr(_)
IntStr(n) == IF n < 10 THEN <<Digit(n)>> ELSE IntStr(n \div 10) \o <<Digit(n % 10)>>

\* a text of n characters, no two neighbours alike
Chr(i) == <<"a", "b", "c", "d", "e", "f", "g">>[(i % 7) + 1]
Chars(n) == [i \in 1..n |-> Chr(i)]

\* json.dumps(v): the JSON text, kept as the value it encodes
JsonDumps(v) == [json |-> v]

---------------------------------------------------------------------------
(* The external assistant API, as one request sees it *)

\* the calls a handler makes on the OpenAI client
ThreadCalls == {"threads.create", "messages.create", "runs.create_and_poll",
                "messages.list", "threads.delete"}
FileCalls == {"files.retrieve", "files.content"}

\* which calls raise: none, one of them, the thread delete, or one of the calls that
\* precede the thread and the thread delete
RaiseSets(cs) ==
    {{}, {"threads.delete"}} \cup {{c} : c \in cs}
    \cup {{c, "threads.delete"} : c \in cs \cap FileCalls}

\* str(e) of the exception a failing call raises
ErrMsgs == {<<"b", "o", "o", "m">>, Chars(MaxErrLen)}

ThreadIds == {<<"thread_abc123">>}

FileId1 == <<"f", "i", "l", "e", "-", "1">>
FileId2 == <<"f", "i", "l", "e", "-", "2">>

\* the items of a message's content
TextItem(value, annotations) ==
    [type |-> "text", text |-> [value |-> value, annotations |-> annotations]]
ImageItem == [type |-> "image_file", image_file |-> [file_id |-> FileId2]]

\* the annotations of a text
Citation(file_id) == [type |-> "file_citation", file_citation |-> [file_id |-> file_id]]
FilePath == [type |-> "file_path", file_path |-> [file_id |-> FileId2]]

AnnotationLists == {<<>>, <<Citation(FileId1)>>,
                    <<Citation(FileId2), FilePath, Citation(FileId1)>>}

\* main.py: the slice length of a search result's text
TruncLen == 500

\* the lengths of the assistant's texts, around the slice length
TextLens == {0, 1, TruncLen - 1, TruncLen, TruncLen + 1, MaxTextLen}

\* messages.list(...).data: newest message first
MessageLists ==
    {<<>>, <<[content |-> <<>>]>>, <<[content |-> <<ImageItem>>]>>,
     <<[content |-> <<ImageItem, TextItem(Chars(2), <<>>)>>],
       [content |-> <<TextItem(Chars(3), <<>>)>>]>>}
    \cup {<<[content |-> <<TextItem(Chars(n), a)>>]>> : n \in TextLens, a \in AnnotationLists}
    \cup {<<[content |-> <<TextItem(Chars(4), <<Citation(FileId1)>>), ImageItem>>],
            [content |-> <<TextItem(Chars(5), <<>>)>>]>>}

\* the messages a fetch is tried with
FetchMessageLists ==
    {<<>>, <<[content |-> <<>>]>>, <<[content |-> <<ImageItem>>]>>,
     <<[content |-> <<TextItem(Chars(4), <<Citation(FileId1)>>), ImageItem>>],
       [content |-> <<TextItem(Chars(5), <<>>)>>]>>}

FileInfos == {[filename |-> <<"notes.txt">>, purpose |-> <<"assistants">>,
               bytes |-> 2, created_at |-> 1700000000]}
FileContents == {[text |-> Chars(2)], [content |-> <<"\\x00\\x01">>]}

SearchApis ==
    [raises : RaiseSets(ThreadCalls \ {"threads.delete"}), err : ErrMsgs,
     thread_id : ThreadIds, messages : MessageLists]

FetchApis ==
    [raises : RaiseSets((ThreadCalls \cup FileCalls) \ {"threads.delete"}), err : ErrMsgs,
     thread_id : ThreadIds, messages : FetchMessageLists,
     file_info : FileInfos, file_content : FileContents]

Queries == {<<>>, <<"t", "a", "x">>}
DocIds == {<<>>, FileId1, <<"d", "o", "c", "_", "1">>, <<"f", "i", "l", "e">>}

---------------------------------------------------------------------------
(* main.py: the FastMCP tools *)

\* "..."
Ellipsis == <<".", ".", ".">>

\* a bug: the slice without the "..." that marks it
Truncate_no_ellipsis(text_content) ==
    IF Len(text_content) > TruncLen THEN SubSeq(text_content, 1, TruncLen)
    ELSE text_content

\* text_content[:500] + "..." if len(text_content) > 500 else text_content
Truncate(text_content) ==
    IF Len(text_content) > TruncLen
    THEN SubSeq(text_content, 1, TruncLen) \o Ellipsis
    ELSE text_content

\* "An error occurred while searching: "
SearchErrorPrefix ==
    <<"A", "n", " ", "e", "r", "r", "o", "r", " ", "o", "c", "c", "u", "r",
      "r", "e", "d", " ", "w", "h", "i", "l", "e", " ", "s", "e", "a", "r",
      "c", "h", "i", "n", "g", ":", " ">>

\* "Referenced document in search for: "
ReferencedPrefix ==
    <<"R", "e", "f", "e", "r", "e", "n", "c", "e", "d", " ", "d", "o", "c",
      "u", "m", "e", "n", "t", " ", "i", "n", " ", "s", "e", "a", "r", "c",
      "h", " ", "f", "o", "r", ":", " ">>

\* the file ids of the annotations that are file citations, in order
RECURSIVE Citations(_)
Citations(annotations) ==
    IF annotations = <<>> THEN <<>>
    ELSE (IF HasAttr(Head(annotations), "file_citation")
          THEN <<Head(annotations).file_citation.file_id>> ELSE <<>>)
         \o Citations(Tail(annotations))

\* the results built from messages.data
SearchResults(query, thread_id, data) ==
    IF data = <<>> THEN <<>>
    ELSE LET latest_message == data[1]
         IN  IF latest_message.content = <<>> THEN <<>>
             ELSE LET content == latest_message.content[1]
                  IN  IF ~HasAttr(content, "text") THEN <<>>
                      ELSE LET text_content == content.text.value
                               citations == IF HasAttr(content.text, "annotations")
                                            THEN Citations(content.text.annotations)
                                            ELSE <<>>
                           IN  <<[id |-> <<"search_result_">> \o thread_id,
                                  title |-> <<"Search result for: ">> \o query,
                                  text |-> Truncate(text_content),
                                  url |-> <<"#search_">> \o thread_id]>>
                               \o [i \in 1..Len(citations) |->
                                     [id |-> citations[i],
                                      title |-> <<"Document ">> \o IntStr(i),
                                      text |-> ReferencedPrefix \o query,
                                      url |-> <<"#file_">> \o citations[i]]]

\* the placeholder of the except clause
SearchError(err) ==
    <<[id |-> <<"error">>, title |-> <<"Search Error">>,
       text |-> SearchErrorPrefix \o err, url |-> <<"#error">>]>>

\* a handler's return: the value, the external calls made, and whether it raised
Return(value, made) == [raised |-> FALSE, value |-> value, calls |-> made]

\* a bug: a failing messages.list is taken for an empty answer
search_ignores_list_failure(query, api) ==
    IF "threads.create" \in api.raises
    THEN Return(SearchError(api.err), <<"threads.create">>)
    ELSE IF "messages.create" \in api.raises
    THEN Return(SearchError(api.err), <<"threads.create", "messages.create">>)
    ELSE IF "runs.create_and_poll" \in api.raises
    THEN Return(SearchError(api.err),
                <<"threads.create", "messages.create", "runs.create_and_poll">>)
    ELSE Return(SearchResults(query, api.thread_id,
                              IF "messages.list" \in api.raises THEN <<>> ELSE api.messages),
                <<"threads.create", "messages.create", "runs.create_and_poll",
                  "messages.list", "threads.delete">>)

\* search(query)
search(query, api) ==
    IF "threads.create" \in api.raises
    THEN Return(SearchError(api.err), <<"threads.create">>)
    ELSE IF "messages.create" \in api.raises
    THEN Return(SearchError(api.err), <<"threads.create", "messages.create">>)
    ELSE IF "runs.create_and_poll" \in api.raises
    THEN Return(SearchError(api.err),
                <<"threads.create", "messages.create", "runs.create_and_poll">>)
    ELSE IF "messages.list" \in api.raises
    THEN Return(SearchError(api.err),
                <<"threads.create", "messages.create", "runs.create_and_poll",
                  "messages.list">>)
    ELSE \* the delete is tried; its failure is logged only
         Return(SearchResults(query, api.thread_id, api.messages),
                <<"threads.create", "messages.create", "runs.create_and_poll",
                  "messages.list", "threads.delete">>)

\* a bug: the prefix test without the dash
FilePrefix_no_dash == <<"f", "i", "l", "e">>

\* the prefix of a raw uploaded file's id
FilePrefix == <<"f", "i", "l", "e", "-">>

\* the empty dict
EmptyDict == [k \in {} |-> None]

\* the Document of a file that could not be retrieved
FileNotFound(id, err) ==
    [id |-> id, title |-> <<"File Not Found">>,
     text |-> <<"Could not retrieve file with ID ">> \o id \o <<": ">> \o err,
     url |-> <<"#file_">> \o id, metadata |-> [error |-> err]]

\* a bug: the placeholder of search, whose id is "error", used for fetch
FetchError_error_id(id, err) ==
    [id |-> <<"error">>, title |-> <<"Fetch Error">>,
     text |-> <<"An error occurred while fetching document ">> \o id \o <<": ">> \o err,
     url |-> <<"#error">>, metadata |-> [error |-> err]]

\* the Document of the outer except clause
FetchError(id, err) ==
    [id |-> id, title |-> <<"Fetch Error">>,
     text |-> <<"An error occurred while fetching document ">> \o id \o <<": ">> \o err,
     url |-> <<"#error_">> \o id, metadata |-> [error |-> err]]

\* the Document of a retrieved file
FileDocument(id, file_info, file_content) ==
    [id |-> id, title |-> file_info.filename,
     text |-> IF HasAttr(file_content, "text") THEN file_content.text
              ELSE <<"Binary file content not available">>,
     url |-> <<"#file_">> \o id,
     metadata |-> [filename |-> file_info.filename, purpose |-> file_info.purpose,
                   bytes |-> file_info.bytes, created_at |-> file_info.created_at]]

\* the Document built from messages.data
ThreadDocument(id, data) ==
    LET result == [id |-> id, title |-> <<"Document ">> \o id,
                   text |-> <<"No content found">>, url |-> <<"#doc_">> \o id,
                   metadata |-> EmptyDict]
    IN  IF data # <<>> /\ data[1].content # <<>> /\ HasAttr(data[1].content[1], "text")
        THEN [result EXCEPT !.text = data[1].content[1].text.value,
                            !.title = <<"Full content for ">> \o id]
        ELSE result

\* fetch(id)
fetch(id, api) ==
    IF StartsWith(id, FilePrefix)
    THEN IF "files.retrieve" \in api.raises
         THEN Return(FileNotFound(id, api.err), <<"files.retrieve">>)
         ELSE IF "files.content" \in api.raises
         THEN Return(FileNotFound(id, api.err), <<"files.retrieve", "files.content">>)
         ELSE Return(FileDocument(id, api.file_info, api.file_content),
                     <<"files.retrieve", "files.content">>)
    ELSE IF "threads.create" \in api.raises
    THEN Return(FetchError(id, api.err), <<"threads.create">>)
    ELSE IF "messages.create" \in api.raises
    THEN Return(FetchError(id, api.err), <<"threads.create", "messages.create">>)
    ELSE IF "runs.create_and_poll" \in api.raises
    THEN Return(FetchError(id, api.err),
                <<"threads.create", "messages.create", "runs.create_and_poll">>)
    ELSE IF "messages.list" \in api.raises
    THEN Return(FetchError(id, api.err),
                <<"threads.create", "messages.create", "runs.create_and_poll",
                  "messages.list">>)
    ELSE \* the delete is tried; its failure is logged only
         Return(ThreadDocument(id, api.messages),
                <<"threads.create", "messages.create", "runs.create_and_poll",
                  "messages.list", "threads.delete">>)

---------------------------------------------------------------------------
(* main_flask.py: the same tools behind Flask routes *)

\* the external calls of the thread round trip up to the one that raises, or all
\* five of them when none of the first four does
RECURSIVE RoundTrip(_, _)
RoundTrip(todo, raises) ==
    IF todo = <<>> THEN <<>>
    ELSE IF Head(todo) \in raises /\ Head(todo) # "threads.delete" THEN <<Head(todo)>>
    ELSE <<Head(todo)>> \o RoundTrip(Tail(todo), raises)

ThreadSteps == <<"threads.create", "messages.create", "runs.create_and_poll",
                 "messages.list", "threads.delete">>

\* the thread round trip ended in the except clause
Failed(made) == made[Len(made)] # "threads.delete"

\* a bug: the failure of the thread delete reaches the outer except clause
search_documents_delete_fatal(query, api) ==
    LET made == RoundTrip(ThreadSteps, api.raises)
    IN  IF Failed(made) \/ "threads.delete" \in api.raises
        THEN Return(SearchError(api.err), made)
        ELSE Return(SearchResults(query, api.thread_id, api.messages), made)

\* search_documents(query)
search_documents(query, api) ==
    LET made == RoundTrip(ThreadSteps, api.raises)
        thread_id == api.thread_id
        data == api.messages
        first == IF data # <<>> /\ data[1].content # <<>>
                 THEN <<data[1].content[1]>> ELSE <<>>
        results ==
            IF first # <<>> /\ HasAttr(first[1], "text")
            THEN LET text_content == first[1].text.value
                     citations == IF HasAttr(first[1].text, "annotations")
                                  THEN Citations(first[1].text.annotations) ELSE <<>>
                 IN  <<[id |-> <<"search_result_">> \o thread_id,
                        title |-> <<"Search result for: ">> \o query,
                        text |-> Truncate(text_content),
                        url |-> <<"#search_">> \o thread_id]>>
                     \o [i \in 1..Len(citations) |->
                           [id |-> citations[i],
                            title |-> <<"Document ">> \o IntStr(i),
                            text |-> ReferencedPrefix \o query,
                            url |-> <<"#file_">> \o citations[i]]]
            ELSE <<>>
    IN  IF Failed(made)
        THEN Return([i \in 1..1 |->
                       [id |-> <<"error">>, title |-> <<"Search Error">>,
                        text |-> SearchErrorPrefix \o api.err, url |-> <<"#error">>]],
                    made)
        ELSE Return(results, made)

\* a bug: a file that cannot be retrieved raises out of the handler
fetch_document_file_raises(doc_id, api) ==
    LET made == RoundTrip(ThreadSteps, api.raises)
    IN  IF StartsWith(doc_id, FilePrefix)
        THEN IF "files.retrieve" \in api.raises
             THEN [raised |-> TRUE, value |-> api.err, calls |-> <<"files.retrieve">>]
             ELSE IF "files.content" \in api.raises
             THEN [raised |-> TRUE, value |-> api.err,
                   calls |-> <<"files.retrieve", "files.content">>]
             ELSE Return(FileDocument(doc_id, api.file_info, api.file_content),
                         <<"files.retrieve", "files.content">>)
        ELSE IF Failed(made) THEN Return(FetchError(doc_id, api.err), made)
        ELSE Return(ThreadDocument(doc_id, api.messages), made)

\* fetch_document(doc_id)
fetch_document(doc_id, api) ==
    LET made == RoundTrip(ThreadSteps, api.raises)
    IN  IF StartsWith(doc_id, FilePrefix)
        THEN IF "files.retrieve" \in api.raises
             THEN Return([id |-> doc_id, title |-> <<"File Not Found">>,
                          text |-> <<"Could not retrieve file with ID ">> \o doc_id
                                   \o <<": ">> \o api.err,
                          url |-> <<"#file_">> \o doc_id, metadata |-> [error |-> api.err]],
                         <<"files.retrieve">>)
             ELSE IF "files.content" \in api.raises
             THEN Return([id |-> doc_id, title |-> <<"File Not Found">>,
                          text |-> <<"Could not retrieve file with ID ">> \o doc_id
                                   \o <<": ">> \o api.err,
                          url |-> <<"#file_">> \o doc_id, metadata |-> [error |-> api.err]],
                         <<"files.retrieve", "files.content">>)
             ELSE Return([id |-> doc_id, title |-> api.file_info.filename,
                          text |-> IF HasAttr(api.file_content, "text")
                                   THEN api.file_content.text
                                   ELSE <<"Binary file content not available">>,
                          url |-> <<"#file_">> \o doc_id,
                          metadata |-> [filename |-> api.file_info.filename,
                                        purpose |-> api.file_info.purpose,
                                        bytes |-> api.file_info.bytes,
                                        created_at |-> api.file_info.created_at]],
                         <<"files.retrieve", "files.content">>)
        ELSE IF Failed(made)
        THEN Return([id |-> doc_id, title |-> <<"Fetch Error">>,
                     text |-> <<"An error occurred while fetching document ">> \o doc_id
                              \o <<": ">> \o api.err,
                     url |-> <<"#error_">> \o doc_id, metadata |-> [error |-> api.err]],
                    made)
        ELSE LET data == api.messages
                 found == data # <<>> /\ data[1].content # <<>>
                          /\ HasAttr(data[1].content[1], "text")
             IN  Return([id |-> doc_id,
                         title |-> IF found THEN <<"Full content for ">> \o doc_id
                                   ELSE <<"Document ">> \o doc_id,
                         text |-> IF found THEN data[1].content[1].text.value
                                  ELSE <<"No content found">>,
                         url |-> <<"#doc_">> \o doc_id,
                         metadata |-> EmptyDict],
                        made)

\* VECTOR_STORE_ID of the environment
VECTOR_STORE_ID == "vs_canyon"

\* a bug: the variant without a vector store reports itself as not ready
health_check_needs_vector_store(variant) ==
    IF variant = "main_simple"
    THEN [status |-> 503, body |-> [status |-> "unconfigured", framework |-> "flask"]]
    ELSE [status |-> 200,
          body |-> [status |-> "healthy", vector_store_id |-> VECTOR_STORE_ID]]

\* GET /health, per variant
health_check(variant) ==
    [status |-> 200,
     body |-> IF variant = "main"
              THEN [status |-> "healthy", vector_store_id |-> VECTOR_STORE_ID]
              ELSE IF variant = "main_flask"
              THEN [status |-> "healthy", vector_store_id |-> VECTOR_STORE_ID,
                    framework |-> "flask"]
              ELSE [status |-> "healthy", framework |-> "flask", mode |-> "simplified",
                    message |-> "MCP server is running. Configure OpenAI vector store for full functionality."]]

\* the tools of the tools/list answer
ToolList ==
    <<[name |-> "search", required |-> <<"query">>],
      [name |-> "fetch", required |-> <<"id">>]>>

\* jsonify({"content": [{"type": "text", "text": json.dumps(value)}]})
FlaskToolContent(value) ==
    [status |-> 200, body |-> [content |-> <<[type |-> "text", text |-> JsonDumps(value)]>>]]

\* the except clause of a Flask route: jsonify({"error": str(e)}), 500
FlaskInternalError(e) == [status |-> 500, body |-> [error |-> e]]

\* POST /sse/ of main_flask.py: the response and the external calls made
flask_mcp_sse(body, api) ==
    IF ~body.is_json
    THEN [response |-> FlaskInternalError(<<"400 Bad Request">>), calls |-> <<>>,
          invoked |-> <<>>]
    ELSE
    LET data == body.data
        method == Get(data, "method", None)
        params == Get(data, "params", EmptyDict)
        tool_name == Get(params, "name", None)
        arguments == Get(params, "arguments", EmptyDict)
        invalid == [response |-> [status |-> 400, body |-> [error |-> "Invalid request"]],
                    calls |-> <<>>, invoked |-> <<>>]
    IN  IF "method" \notin DOMAIN data THEN invalid
        ELSE IF method = "tools/call"
        THEN IF tool_name = "search"
             THEN LET r == search_documents(Get(arguments, "query", <<>>), api)
                  IN  [response |-> IF r.raised THEN FlaskInternalError(r.value)
                                    ELSE FlaskToolContent(r.value),
                       calls |-> r.calls, invoked |-> <<"search_documents">>]
             ELSE IF tool_name = "fetch"
             THEN LET r == fetch_document(Get(arguments, "id", <<>>), api)
                  IN  [response |-> IF r.raised THEN FlaskInternalError(r.value)
                                    ELSE FlaskToolContent(r.value),
                       calls |-> r.calls, invoked |-> <<"fetch_document">>]
             ELSE invalid
        ELSE IF method = "tools/list"
        THEN [response |-> [status |-> 200, body |-> [tools |-> ToolList]], calls |-> <<>>,
              invoked |-> <<>>]
        ELSE invalid

\* POST /search of main_flask.py
flask_search_endpoint(body, api) ==
    IF ~body.is_json
    THEN [response |-> FlaskInternalError(<<"400 Bad Request">>), calls |-> <<>>,
          invoked |-> <<>>]
    ELSE LET r == search_documents(Get(body.data, "query", <<>>), api)
         IN  [response |-> IF r.raised THEN FlaskInternalError(r.value)
                           ELSE [status |-> 200, body |-> r.value],
              calls |-> r.calls, invoked |-> <<"search_documents">>]

\* POST /fetch of main_flask.py
flask_fetch_endpoint(body, api) ==
    IF ~body.is_json
    THEN [response |-> FlaskInternalError(<<"400 Bad Request">>), calls |-> <<>>,
          invoked |-> <<>>]
    ELSE LET r == fetch_document(Get(body.data, "id", <<>>), api)
         IN  [response |-> IF r.raised THEN FlaskInternalError(r.value)
                           ELSE [status |-> 200, body |-> r.value],
              calls |-> r.calls, invoked |-> <<"fetch_document">>]

---------------------------------------------------------------------------
(* main_simple.py: mock tools and the JSON-RPC route *)

\* search_documents(query) of main_simple.py: two mock results
simple_search_documents(query) ==
    <<[id |-> <<"doc_1">>,
       title |-> <<"Search result for: ">> \o query,
       text |-> <<"This is a mock search result for the query '">> \o query
                \o <<"'. Once you configure your OpenAI vector store, this will return real search results from your documents.">>,
       url |-> <<"#doc_1">>],
      [id |-> <<"doc_2">>,
       title |-> <<"Sample Document">>,
       text |-> <<"This is sample content that demonstrates how the MCP server returns search results. Upload documents to your OpenAI vector store to see real content here.">>,
       url |-> <<"#doc_2">>]>>

\* len(f"Document {doc_id}")
DocumentTitleLen(doc_id) == Len(<<"D", "o", "c", "u", "m", "e", "n", "t", " ">>) + Len(doc_id)

\* fetch_document(doc_id) of main_simple.py: a mock document
simple_fetch_document(doc_id) ==
    [id |-> doc_id,
     title |-> <<"Document ">> \o doc_id,
     text |-> <<"This is the full content for document ">> \o doc_id
              \o <<". Once you configure your OpenAI vector store and upload documents, this will return the actual document content.">>,
     url |-> <<"#doc_">> \o doc_id,
     metadata |-> [type |-> "mock_document", created |-> "2024-01-01",
                   size |-> DocumentTitleLen(doc_id) * 50]]

\* str.split(sep) for a one-character separator
RECURSIVE Split(_, _)
Split(s, sep) ==
    IF \A i \in 1..Len(s) : s[i] # sep THEN <<s>>
    ELSE LET i == CHOOSE j \in 1..Len(s) : s[j] = sep /\ \A k \in 1..(j - 1) : s[k] # sep
         IN  <<SubSeq(s, 1, i - 1)>> \o Split(SubSeq(s, i + 1, Len(s)), sep)

\* p in s for two str
Contains(s, p) == \E i \in 0..(Len(s) - Len(p)) : SubSeq(s, i + 1, i + Len(p)) = p

\* 'Bearer ' and 'mcp_access_token'
BearerPrefix == <<"B", "e", "a", "r", "e", "r", " ">>
TokenPrefix == <<"m", "c", "p", "_", "a", "c", "c", "e", "s", "s", "_", "t", "o", "k", "e", "n">>

\* 'method' as the characters of a JSON string
MethodChars == <<"m", "e", "t", "h", "o", "d">>

\* a request header: absent, or its value
NoHeader == [present |-> FALSE]
Header(value) == [present |-> TRUE, value |-> value]

\* a bug: the token is compared as a whole, not by its prefix
TokenRejected_exact(auth_header) ==
    /\ auth_header.present /\ auth_header.value # <<>>
    /\ StartsWith(auth_header.value, BearerPrefix)
    /\ Split(auth_header.value, " ")[2] # TokenPrefix

\* the Authorization check of mcp_sse: the request is answered with 401
TokenRejected(auth_header) ==
    /\ auth_header.present /\ auth_header.value # <<>>
    /\ StartsWith(auth_header.value, BearerPrefix)
    /\ ~StartsWith(Split(auth_header.value, " ")[2], TokenPrefix)

\* a JSON body by the kind of its value: an object, or an array, string, number, null
JsonObject(data) == [is_json |-> TRUE, kind |-> "object", data |-> data]
JsonValue(kind, value) == [is_json |-> TRUE, kind |-> kind, value |-> value]

\* 'method' in data raises TypeError
MethodTestRaises(body) == body.kind \in {"null", "number"}

\* 'method' in data
MethodIn(body) ==
    IF body.kind = "object" THEN "method" \in DOMAIN body.data
    ELSE IF body.kind = "array" THEN \E i \in 1..Len(body.value) : body.value[i] = "method"
    ELSE Contains(body.value, MethodChars)

\* json.dumps(value, indent=2)
JsonDumpsIndent(v, indent) == [json |-> v, indent |-> indent]

\* a JSON-RPC answer with a result / with an error
RpcResult(request_id, result) ==
    [status |-> 200, body |-> [jsonrpc |-> "2.0", id |-> request_id, result |-> result]]
RpcError(request_id, code, message, status) ==
    [status |-> status,
     body |-> [jsonrpc |-> "2.0", id |-> request_id,
               error |-> [code |-> code, message |-> message]]]
\* the error answers that carry no id
RpcErrorNoId(code, message, status) ==
    [status |-> status,
     body |-> [jsonrpc |-> "2.0", error |-> [code |-> code, message |-> message]]]

\* the tools of the tools/list answer of main_simple.py
SimpleToolList ==
    <<[name |-> "search", required |-> <<"query">>],
      [name |-> "fetch", required |-> <<"id">>]>>

\* the dispatch of a JSON object that has a method
SimpleDispatch(data) ==
    LET method == data["method"]
        params == Get(data, "params", EmptyDict)
        request_id == Get(data, "id", None)
        tool_name == Get(params, "name", None)
        arguments == Get(params, "arguments", EmptyDict)
        content(text) == [content |-> <<[type |-> "text", text |-> text]>>]
    IN  IF method = "initialize"
        THEN [response |-> RpcResult(request_id,
                  [protocolVersion |-> "2024-11-05",
                   capabilities |-> [tools |-> EmptyDict, prompts |-> EmptyDict,
                                     resources |-> EmptyDict],
                   serverInfo |-> [name |-> "mcp-server-canyon", version |-> "1.0.0"]]),
              invoked |-> <<>>]
        ELSE IF method = "tools/list"
        THEN [response |-> RpcResult(request_id, [tools |-> SimpleToolList]),
              invoked |-> <<>>]
        ELSE IF method = "tools/call"
        THEN IF tool_name = "search"
             THEN [response |-> RpcResult(request_id,
                       content(JsonDumpsIndent(
                           simple_search_documents(Get(arguments, "query", <<>>)), 2))),
                   invoked |-> <<"search_documents">>]
             ELSE IF tool_name = "fetch"
             THEN [response |-> RpcResult(request_id,
                       content(JsonDumpsIndent(
                           simple_fetch_document(Get(arguments, "id", <<>>)), 2))),
                   invoked |-> <<"fetch_document">>]
             ELSE [response |-> RpcError(request_id, -32602,
                                         <<"Unknown tool: ", tool_name>>, 400),
                   invoked |-> <<>>]
        ELSE IF method = "prompts/list"
        THEN [response |-> RpcResult(request_id, [prompts |-> <<>>]), invoked |-> <<>>]
        ELSE IF method = "resources/list"
        THEN [response |-> RpcResult(request_id, [resources |-> <<>>]), invoked |-> <<>>]
        ELSE [response |-> RpcError(request_id, -32601, <<"Method not found: ", method>>, 400),
              invoked |-> <<>>]

\* the answer of the except clause of mcp_sse
SimpleInternalError == RpcErrorNoId(-32603, <<"Internal error: ">>, 500)

\* POST /sse/ of main_simple.py: the response and the tool handlers entered
mcp_sse(auth_header, body) ==
    IF TokenRejected(auth_header)
    THEN [response |-> RpcErrorNoId(-32001, <<"Invalid access token">>, 401),
          invoked |-> <<>>]
    ELSE IF ~body.is_json                        \* request.get_json() raises
    THEN [response |-> SimpleInternalError, invoked |-> <<>>]
    ELSE IF MethodTestRaises(body)               \* 'method' in data raises
    THEN [response |-> SimpleInternalError, invoked |-> <<>>]
    ELSE IF MethodIn(body)
    THEN IF body.kind # "object"                 \* data['method'] raises
         THEN [response |-> SimpleInternalError, invoked |-> <<>>]
         ELSE SimpleDispatch(body.data)
    ELSE [response |-> RpcErrorNoId(-32600, <<"Invalid Request">>, 400), invoked |-> <<>>]

\* jsonify({"error": str(e)}), 500 of the testing endpoints of main_simple.py
SimpleEndpointError(e) == [status |-> 500, body |-> [error |-> e]]

\* POST /search of main_simple.py
simple_search_endpoint(body) ==
    IF ~body.is_json                             \* request.get_json() raises
    THEN [response |-> SimpleEndpointError(<<"400 Bad Request">>), invoked |-> <<>>]
    ELSE IF body.kind # "object"                 \* data.get raises AttributeError
    THEN [response |-> SimpleEndpointError(<<"object has no attribute 'get'">>),
          invoked |-> <<>>]
    ELSE [response |-> [status |-> 200,
                        body |-> simple_search_documents(Get(body.data, "query", <<>>))],
          invoked |-> <<"search_documents">>]

\* POST /fetch of main_simple.py
simple_fetch_endpoint(body) ==
    IF ~body.is_json
    THEN [response |-> SimpleEndpointError(<<"400 Bad Request">>), invoked |-> <<>>]
    ELSE IF body.kind # "object"
    THEN [response |-> SimpleEndpointError(<<"object has no attribute 'get'">>),
          invoked |-> <<>>]
    ELSE [response |-> [status |-> 200,
                        body |-> simple_fetch_document(Get(body.data, "id", <<>>))],
          invoked |-> <<"fetch_document">>]

\* GET /sse/ of main_simple.py
mcp_discovery ==
    [status |-> 200,
     body |-> [capabilities |-> [prompts |-> EmptyDict, resources |-> EmptyDict,
                                 tools |-> EmptyDict],
               protocol_version |-> "2024-11-05",
               server_name |-> "MCP Server Canyon", server_version |-> "1.0.0"]]

\* GET / of main_simple.py
home ==
    [status |-> 200,
     body |-> [message |-> "MCP Server for ChatGPT Integration", status |-> "running",
               endpoints |-> [health |-> "/health", mcp |-> "/sse/", search |-> "/search",
                              fetch |-> "/fetch",
                              oauth_config |-> "/.well-known/mcp_oauth_config",
                              oauth_discovery |-> "/.well-known/oauth-authorization-server",
                              oauth_authorize |-> "/oauth/authorize",
                              oauth_token |-> "/oauth/token"],
               note |-> "This is a simplified version. Configure OpenAI vector store for full functionality."]]

\* GET /.well-known/mcp_oauth_config
mcp_oauth_config(base_url) ==
    [status |-> 200,
     body |-> [authorization_endpoint |-> <<base_url, "/oauth/authorize">>,
               token_endpoint |-> <<base_url, "/oauth/token">>,
               scopes |-> <<"read", "write">>,
               client_id |-> CLIENT_ID,
               grant_types_supported |-> <<"authorization_code">>,
               response_types_supported |-> <<"code">>,
               token_endpoint_auth_methods_supported |-> <<"client_secret_basic">>,
               code_challenge_methods_supported |-> <<"S256">>,
               issuer |-> base_url]]

\* GET /.well-known/oauth-authorization-server
oauth_authorization_server(base_url) ==
    [status |-> 200,
     body |-> [issuer |-> base_url,
               authorization_endpoint |-> <<base_url, "/oauth/authorize">>,
               token_endpoint |-> <<base_url, "/oauth/token">>,
               scopes_supported |-> <<"read", "write">>,
               response_types_supported |-> <<"code">>,
               grant_types_supported |-> <<"authorization_code">>,
               token_endpoint_auth_methods_supported |->
                   <<"client_secret_basic", "client_secret_post">>,
               code_challenge_methods_supported |-> <<"S256">>,
               subject_types_supported |-> <<"public">>]]

---------------------------------------------------------------------------
(* The requests a client may send *)

ClientIds == {None, CLIENT_ID, "other-client"}
ResponseTypes == {None, "code", "token"}
RedirectUris == {None, "https://chat.example/cb"}
States == {None, "xyz"}
Scopes == {None, "read write"}
CodeChallenges == {None, "E9Melhoa2OwvFrEMTJguCHaoeK1t8URWbuGJSstw-cM"}
GrantTypes == {None, "authorization_code", "refresh_token"}
Codes == {None, mock_auth_code, "mcp_auth_code_other"}
ClientSecrets == {None, CLIENT_SECRET, "wrong-secret"}

AuthorizeArgs ==
    {Sent(f) : f \in [client_id : ClientIds, response_type : ResponseTypes,
                      redirect_uri : RedirectUris, state : States, scope : Scopes,
                      code_challenge : CodeChallenges]}

TokenForms ==
    {Sent(f) : f \in [grant_type : GrantTypes, code : Codes, client_id : ClientIds,
                      client_secret : ClientSecrets]}

\* JSON bodies of the POST routes
ToolNames == {"search", "fetch", "delete"}
Methods == {"initialize", "tools/list", "tools/call", "prompts/list", "resources/list",
            "tools/run"}
Arguments ==
    {EmptyDict} \cup {[query |-> q] : q \in Queries} \cup {[id |-> d] : d \in DocIds}
ToolParams ==
    {EmptyDict} \cup {[name |-> n] : n \in ToolNames}
    \cup {[name |-> n, arguments |-> a] : n \in ToolNames, a \in Arguments}
SseData ==
    {EmptyDict, [params |-> EmptyDict]} \cup {[method |-> m] : m \in Methods}
    \cup {[method |-> m, params |-> p] : m \in Methods, p \in ToolParams}
NotJson == [is_json |-> FALSE]
Json(data) == [is_json |-> TRUE, data |-> data]

\* the API as a request that makes no external call sees it
NoApi == [raises |-> {}]

\* the API outcomes that matter to a POST /sse/ body
ApisFor(body) ==
    IF body.is_json /\ Get(body.data, "method", None) = "tools/call"
    THEN LET tool_name == Get(Get(body.data, "params", EmptyDict), "name", None)
         IN  IF tool_name = "search" THEN SearchApis
             ELSE IF tool_name = "fetch" THEN FetchApis
             ELSE {NoApi}
    ELSE {NoApi}

\* the Authorization headers POST /sse/ of main_simple.py is tried with
ValidBearer == Header(<<"B", "e", "a", "r", "e", "r", " ", "m", "c", "p", "_", "a", "c", "c", "e", "s", "s", "_", "t", "o", "k", "e", "n", "_", "c", "a", "n", "y", "o", "n", "_", "a", "b", "c", "d", "e", "f", "1", "2", "3", "4", "5", "6">>)
AuthHeaders ==
    {NoHeader, Header(<<>>), ValidBearer,
     Header(<<"B", "e", "a", "r", "e", "r", " ", "m", "c", "p", "_", "a", "c", "c", "e", "s", "s", "_", "t", "o", "k", "e", "n">>),
     Header(<<"B", "e", "a", "r", "e", "r", " ", "m", "c", "p", "_", "r", "e", "f", "r", "e", "s", "h", "_", "t", "o", "k", "e", "n">>),
     Header(<<"B", "e", "a", "r", "e", "r", " ">>),
     Header(<<"B", "e", "a", "r", "e", "r", " ", " ", "m", "c", "p", "_", "a", "c", "c", "e", "s", "s", "_", "t", "o", "k", "e", "n">>),
     Header(<<"b", "e", "a", "r", "e", "r", " ", "a", "b", "c">>),
     Header(<<"B", "a", "s", "i", "c", " ", "m", "c", "p", "_", "a", "c", "c", "e", "s", "s", "_", "t", "o", "k", "e", "n">>)}

\* the bodies POST /sse/ of main_simple.py is tried with
SimpleParams ==
    {EmptyDict, [name |-> "search"], [name |-> "fetch"], [name |-> "delete"],
     [arguments |-> [query |-> <<"t", "a", "x">>]],
     [name |-> "search", arguments |-> EmptyDict],
     [name |-> "search", arguments |-> [query |-> <<"t", "a", "x">>]],
     [name |-> "fetch", arguments |-> [id |-> FileId1]],
     [name |-> "fetch", arguments |-> [id |-> <<"d", "o", "c", "_", "1">>]],
     [name |-> "delete", arguments |-> [id |-> FileId1]]}
SimpleObjects ==
    {EmptyDict, [id |-> 7], [params |-> EmptyDict]}
    \cup {[method |-> m] : m \in Methods \cup {""}}
    \cup {[method |-> m, id |-> 7] : m \in Methods}
    \cup {[method |-> "tools/call", params |-> p] : p \in SimpleParams}
    \cup {[method |-> "tools/call", params |-> p, id |-> 7] : p \in SimpleParams}
SimpleBodies ==
    {NotJson, JsonValue("null", <<>>), JsonValue("number", <<>>),
     JsonValue("array", <<>>), JsonValue("array", <<"method">>),
     JsonValue("string", <<"h", "i">>),
     JsonValue("string", <<"a">> \o MethodChars \o <<"s">>)}
    \cup {JsonObject(d) : d \in SimpleObjects}

\* every body without a header and with a valid one; every header with a few bodies
SimpleSseRequests ==
    {[header |-> h, body |-> b] : h \in {NoHeader, ValidBearer}, b \in SimpleBodies}
    \cup {[header |-> h, body |-> b] :
            h \in AuthHeaders,
            b \in {NotJson, JsonObject([method |-> "tools/list"]),
                   JsonObject([method |-> "tools/call",
                                        params |-> [name |-> "search"]]),
                   JsonObject([method |-> "tools/call",
                                        params |-> [name |-> "delete"]])}}

\* the bodies POST /search and POST /fetch of main_simple.py are tried with
SimpleSearchBodies ==
    {NotJson, JsonValue("null", <<>>), JsonObject(EmptyDict),
     JsonObject([query |-> <<"t", "a", "x">>])}
SimpleFetchBodies ==
    {NotJson, JsonValue("null", <<>>), JsonObject(EmptyDict),
     JsonObject([id |-> FileId1]), JsonObject([id |-> <<"d", "o", "c", "_", "1">>])}

\* request.url_root.rstrip('/') of the metadata requests
BaseUrls == {"https://mcp.example", "http://localhost:8000"}

\* history: what the last request was, for the request after it
Outcome ==
    IF request.op = "authorize"
    THEN (IF response.status = 302 THEN "authorize_ok" ELSE "authorize_rejected")
    ELSE IF request.op = "token"
    THEN (IF response.status # 200 THEN "token_rejected"
          ELSE IF before # None THEN "exchange" ELSE "token_without_code")
    ELSE IF request.op = "start" THEN "start"
    ELSE "other"

---------------------------------------------------------------------------
(* Actions *)

\* the token requests in flight: none, as when requests are handled one by one
NoneInFlight == [pc |-> <<>>, form |-> <<>>, grants |-> 0]

Init ==
    /\ server \in {"main", "main_flask", "main_simple"}
    /\ temp_auth_code = None
    /\ request = [op |-> "start"]
    /\ response = [status |-> 0]
    /\ calls = <<>>
    /\ invoked = <<>>
    /\ conc = NoneInFlight
    /\ before = None
    /\ issued = <<>>
    /\ spent = FALSE
    /\ prev = "start"

\* what every request that is no OAuth request leaves behind
NoOauth ==
    /\ before' = temp_auth_code
    /\ prev' = Outcome
    /\ UNCHANGED <<server, temp_auth_code, issued, spent, conc>>

\* main.py and main_flask.py keep nothing between two requests, so one tool
\* request per behaviour (after any number of health checks) shows all of them
NoToolRequestYet == request.op \in {"start", "health"}

\* GET /health of the three variants
HealthCheck ==
    /\ request' = [op |-> "health"]
    /\ response' = health_check(server)
    /\ calls' = <<>>
    /\ invoked' = <<>>
    /\ NoOauth

\* main.py: the search tool is called
Search ==
    /\ server = "main"
    /\ NoToolRequestYet
    /\ \E query \in Queries, api \in SearchApis :
         LET r == search(query, api)
         IN  /\ request' = [op |-> "search", query |-> query, api |-> api]
             /\ response' = [raised |-> r.raised, value |-> r.value]
             /\ calls' = r.calls
             /\ invoked' = <<"search">>
    /\ NoOauth

\* main.py: the fetch tool is called
Fetch ==
    /\ server = "main"
    /\ NoToolRequestYet
    /\ \E id \in DocIds, api \in FetchApis :
         LET r == fetch(id, api)
         IN  /\ request' = [op |-> "fetch", id |-> id, api |-> api]
             /\ response' = [raised |-> r.raised, value |-> r.value]
             /\ calls' = r.calls
             /\ invoked' = <<"fetch">>
    /\ NoOauth

\* main_flask.py: POST /sse/
FlaskMcpSse ==
    /\ server = "main_flask"
    /\ NoToolRequestYet
    /\ \E body \in {NotJson} \cup {Json(d) : d \in SseData} :
         \E api \in ApisFor(body) :
           LET r == flask_mcp_sse(body, api)
           IN  /\ request' = [op |-> "sse", body |-> body, api |-> api]
               /\ response' = r.response
               /\ calls' = r.calls
               /\ invoked' = r.invoked
    /\ NoOauth

\* main_flask.py: POST /search
FlaskSearchEndpoint ==
    /\ server = "main_flask"
    /\ NoToolRequestYet
    /\ \E body \in {NotJson, Json(EmptyDict)} \cup {Json([query |-> q]) : q \in Queries} :
         \E api \in SearchApis :
           LET r == flask_search_endpoint(body, api)
           IN  /\ request' = [op |-> "search", body |-> body, api |-> api]
               /\ response' = r.response
               /\ calls' = r.calls
               /\ invoked' = r.invoked
    /\ NoOauth

\* main_flask.py: POST /fetch
FlaskFetchEndpoint ==
    /\ server = "main_flask"
    /\ NoToolRequestYet
    /\ \E body \in {NotJson, Json(EmptyDict)} \cup {Json([id |-> d]) : d \in DocIds} :
         \E api \in FetchApis :
           LET r == flask_fetch_endpoint(body, api)
           IN  /\ request' = [op |-> "fetch", body |-> body, api |-> api]
               /\ response' = r.response
               /\ calls' = r.calls
               /\ invoked' = r.invoked
    /\ NoOauth

\* main_simple.py: POST /sse/
SimpleMcpSse ==
    /\ server = "main_simple"
    /\ \E req \in SimpleSseRequests :
         LET r == mcp_sse(req.header, req.body)
         IN  /\ request' = [op |-> "sse", header |-> req.header, body |-> req.body]
             /\ response' = r.response
             /\ invoked' = r.invoked
    /\ calls' = <<>>
    /\ NoOauth

\* main_simple.py: POST /search
SimpleSearchEndpoint ==
    /\ server = "main_simple"
    /\ \E body \in SimpleSearchBodies :
         LET r == simple_search_endpoint(body)
         IN  /\ request' = [op |-> "search", body |-> body]
             /\ response' = r.response
             /\ invoked' = r.invoked
    /\ calls' = <<>>
    /\ NoOauth

\* main_simple.py: POST /fetch
SimpleFetchEndpoint ==
    /\ server = "main_simple"
    /\ \E body \in SimpleFetchBodies :
         LET r == simple_fetch_endpoint(body)
         IN  /\ request' = [op |-> "fetch", body |-> body]
             /\ response' = r.response
             /\ invoked' = r.invoked
    /\ calls' = <<>>
    /\ NoOauth

\* main_simple.py: GET /sse/
McpDiscovery ==
    /\ server = "main_simple"
    /\ request' = [op |-> "discovery"]
    /\ response' = mcp_discovery
    /\ calls' = <<>>
    /\ invoked' = <<>>
    /\ NoOauth

\* main_simple.py: GET /
Home ==
    /\ server = "main_simple"
    /\ request' = [op |-> "home"]
    /\ response' = home
    /\ calls' = <<>>
    /\ invoked' = <<>>
    /\ NoOauth

\* main_simple.py: GET /.well-known/mcp_oauth_config
McpOauthConfig ==
    /\ server = "main_simple"
    /\ \E base_url \in BaseUrls :
         /\ request' = [op |-> "mcp_oauth_config", url_root |-> base_url]
         /\ response' = mcp_oauth_config(base_url)
    /\ calls' = <<>>
    /\ invoked' = <<>>
    /\ NoOauth

\* main_simple.py: GET /.well-known/oauth-authorization-server
OauthAuthorizationServer ==
    /\ server = "main_simple"
    /\ \E base_url \in BaseUrls :
         /\ request' = [op |-> "oauth_authorization_server", url_root |-> base_url]
         /\ response' = oauth_authorization_server(base_url)
    /\ calls' = <<>>
    /\ invoked' = <<>>
    /\ NoOauth

OauthAuthorize ==
    /\ server = "main_simple"
    /\ \E args \in AuthorizeArgs :
         LET r == oauth_authorize(args, temp_auth_code)
         IN  /\ request' = [op |-> "authorize", args |-> args]
             /\ response' = r.response
             /\ temp_auth_code' = r.slot
             /\ issued' = IF r.response.status # 302 THEN issued
                          ELSE LastN(Append(IF spent THEN <<>> ELSE issued,
                                            CodeParam(r.response.location)), MaxIssued)
             /\ spent' = (spent /\ r.response.status # 302)
    /\ before' = temp_auth_code
    /\ prev' = Outcome
    /\ calls' = <<>>
    /\ invoked' = <<>>
    /\ UNCHANGED <<server, conc>>

OauthToken ==
    /\ server = "main_simple"
    /\ \E form \in TokenForms :
         LET r == oauth_token(form, temp_auth_code)
         IN  /\ request' = [op |-> "token", form |-> form]
             /\ response' = r.response
             /\ temp_auth_code' = r.slot
             /\ spent' = (spent \/ r.response.status = 200)
    /\ before' = temp_auth_code
    /\ prev' = Outcome
    /\ calls' = <<>>
    /\ invoked' = <<>>
    /\ UNCHANGED <<server, issued, conc>>

Next ==
    \/ OauthAuthorize
    \/ OauthToken
    \/ Search
    \/ Fetch
    \/ FlaskMcpSse
    \/ FlaskSearchEndpoint
    \/ FlaskFetchEndpoint
    \/ HealthCheck
    \/ SimpleMcpSse
    \/ SimpleSearchEndpoint
    \/ SimpleFetchEndpoint
    \/ McpDiscovery
    \/ Home
    \/ McpOauthConfig
    \/ OauthAuthorizationServer

Spec == Init /\ [][Next]_vars

---------------------------------------------------------------------------
(* main_simple.py under the threaded server: POST /oauth/token in two steps *)

\* the number of token requests the server handles at the same time
NumHandlers == 2
Handlers == 1..NumHandlers

\* the requests the concurrent handlers are tried with
ConcAuthorizeArgs ==
    {[client_id |-> CLIENT_ID, response_type |-> "code",
      redirect_uri |-> "https://chat.example/cb"],
     [client_id |-> CLIENT_ID, response_type |-> "code",
      redirect_uri |-> "https://chat.example/cb", state |-> "xyz"],
     [client_id |-> "other-client", response_type |-> "code",
      redirect_uri |-> "https://chat.example/cb"]}
ConcTokenForms ==
    {[grant_type |-> "authorization_code", code |-> c, client_id |-> CLIENT_ID,
      client_secret |-> s] : c \in {mock_auth_code, "mcp_auth_code_other"},
                             s \in {CLIENT_SECRET, "wrong-secret"}}
    \cup {[grant_type |-> "authorization_code", client_id |-> CLIENT_ID,
           client_secret |-> CLIENT_SECRET]}

ConcInit ==
    /\ server = "main_simple"
    /\ temp_auth_code = None
    /\ request = [op |-> "start"]
    /\ response = [status |-> 0]
    /\ calls = <<>>
    /\ invoked = <<>>
    /\ conc = [pc |-> [t \in Handlers |-> "idle"], form |-> [t \in Handlers |-> EmptyDict],
               grants |-> 0]
    /\ before = None
    /\ issued = <<>>
    /\ spent = FALSE
    /\ prev = "start"

\* GET /oauth/authorize, which writes the slot in one statement; conc.grants counts
\* the tokens granted for a code since the last authorization
ConcAuthorize ==
    /\ \E args \in ConcAuthorizeArgs :
         LET r == oauth_authorize(args, temp_auth_code)
         IN  /\ request' = [op |-> "authorize", args |-> args]
             /\ response' = r.response
             /\ temp_auth_code' = r.slot
             /\ conc' = [conc EXCEPT !.grants = IF r.response.status = 302 THEN 0 ELSE @]
    /\ UNCHANGED <<server, calls, invoked, before, issued, spent, prev>>

\* POST /oauth/token, first step: the handler reads the form and validates it
\* against the slot; a request that fails is answered at once
TokenValidate(t) ==
    /\ conc.pc[t] = "idle"
    /\ \E form \in ConcTokenForms :
         IF TokenRequestInvalid(form, temp_auth_code)
         THEN /\ request' = [op |-> "token", form |-> form]
              /\ response' = InvalidGrant
              /\ UNCHANGED conc
         ELSE /\ conc' = [conc EXCEPT !.pc[t] = "validated", !.form[t] = form]
              /\ UNCHANGED <<request, response>>
    /\ UNCHANGED <<server, temp_auth_code, calls, invoked, before, issued, spent, prev>>

\* POST /oauth/token, second step: the handler that passed the validation builds
\* the token payload, clears the slot and answers
TokenGrant(t) ==
    /\ conc.pc[t] = "validated"
    /\ request' = [op |-> "token", form |-> conc.form[t]]
    /\ response' = TokenPayload
    /\ temp_auth_code' = None
    /\ conc' = [conc EXCEPT !.pc[t] = "idle", !.form[t] = EmptyDict,
                            !.grants = IF "code" \in DOMAIN conc.form[t] THEN @ + 1 ELSE @]
    /\ UNCHANGED <<server, calls, invoked, before, issued, spent, prev>>

ConcNext ==
    \/ ConcAuthorize
    \/ \E t \in Handlers : TokenValidate(t)
    \/ \E t \in Handlers : TokenGrant(t)

SpecConcurrent == ConcInit /\ [][ConcNext]_vars

---------------------------------------------------------------------------
(* Claims about the mock OAuth flow of main_simple.py *)

\* the last request was a POST /oauth/token
IsToken == request.op = "token"

\* the last request was a GET /oauth/authorize
IsAuthorize == request.op = "authorize"

\* the last response is a token payload of type Bearer
Granted == response.status = 200 /\ response.body.token_type = "Bearer"

\* the last response is the error invalid_grant, HTTP 400
Refused == response.status = 400 /\ response.body = [error |-> "invalid_grant"]

\* a token form with the right grant type and credentials, carrying code
CarriesCode(form, code) ==
    /\ Get(form, "grant_type", None) = "authorization_code"
    /\ Get(form, "code", None) = code
    /\ Get(form, "client_id", None) = CLIENT_ID
    /\ Get(form, "client_secret", None) = CLIENT_SECRET

\* the code the latest redirect carried / the one before it
LatestIssued == issued[Len(issued)]
FirstIssued == issued[Len(issued) - 1]

\* C1: right after a successful authorize, a token request with the code of the
\* redirect and the static credentials gets a Bearer token payload; the same
\* request sent again right after that exchange gets invalid_grant.
C1_RoundTripThenReplay ==
    /\ (IsToken /\ prev = "authorize_ok" /\ CarriesCode(request.form, LatestIssued))
          => Granted
    /\ (IsToken /\ prev = "exchange" /\ CarriesCode(request.form, LatestIssued))
          => Refused

C1_Witness ==
    /\ IsToken /\ prev = "exchange" /\ issued # <<>>
    /\ CarriesCode(request.form, LatestIssued) /\ Refused

\* C2: a token request that arrives while the slot is empty gets invalid_grant,
\* whatever parameters it carries or omits.
C2_TokenOnlyWhileCodeIssued == (IsToken /\ before = None) => Refused

\* C3: a token request that mismatches on grant_type, code (against the slot),
\* client_id or client_secret gets invalid_grant with HTTP 400 and leaves the slot
\* as it was; with a code pending, the correct request sent after a refused one
\* is granted.
C3_MismatchKeepsSlot ==
    /\ (IsToken /\ (\/ Get(request.form, "grant_type", None) # "authorization_code"
                    \/ Get(request.form, "code", None) # before
                    \/ Get(request.form, "client_id", None) # CLIENT_ID
                    \/ Get(request.form, "client_secret", None) # CLIENT_SECRET))
          => (Refused /\ temp_auth_code = before)
    /\ (IsToken /\ prev = "token_rejected" /\ before # None
                /\ CarriesCode(request.form, before))
          => Granted

C3_Witness ==
    /\ IsToken /\ prev = "token_rejected" /\ before # None
    /\ CarriesCode(request.form, before) /\ Granted

\* C4 as claimed: after two successful authorize calls with no token granted
\* between them, the code of the first redirect is refused at the token endpoint.
C4_SecondInvalidatesFirst ==
    (IsToken /\ prev = "authorize_ok" /\ Len(issued) >= 2
             /\ CarriesCode(request.form, FirstIssued))
       => ~Granted

\* C4 as amended: the two redirects carry the same code, the first one's code is
\* still exchanged after the second authorize, and that one exchange empties the slot.
C4_SameCodeSharedSlot ==
    /\ Len(issued) >= 2 => FirstIssued = LatestIssued
    /\ (IsToken /\ prev = "authorize_ok" /\ Len(issued) >= 2
                /\ CarriesCode(request.form, FirstIssued))
          => (Granted /\ temp_auth_code = None)

C4_Witness ==
    /\ IsToken /\ prev = "authorize_ok" /\ Len(issued) >= 2
    /\ CarriesCode(request.form, FirstIssued) /\ Granted

\* C5: an authorize request with the static client id and response_type "code" is
\* answered, from an empty and from a filled slot alike, with a redirect, and the
\* slot then holds the code the redirect carries, whatever else is sent or omitted.
C5_AuthorizeAlwaysSucceeds ==
    (IsAuthorize /\ Get(request.args, "client_id", None) = CLIENT_ID
                 /\ Get(request.args, "response_type", None) = "code")
       => /\ response.status = 302
          /\ temp_auth_code # None
          /\ CodeParam(response.location) = temp_auth_code

C5_Witness ==
    /\ IsAuthorize /\ response.status = 302 /\ before # None
    /\ "redirect_uri" \notin DOMAIN request.args
    /\ "code_challenge" \in DOMAIN request.args
    /\ temp_auth_code = CodeParam(response.location)

\* C6: an authorize request with another client id, or another response_type, is
\* answered with HTTP 400 and not with a redirect.
C6_BadClientRejected ==
    (IsAuthorize /\ (\/ Get(request.args, "client_id", None) # CLIENT_ID
                     \/ Get(request.args, "response_type", None) # "code"))
       => (response.status = 400 /\ "location" \notin DOMAIN response)

C6_Witness ==
    /\ IsAuthorize /\ response.status = 400
    /\ Get(request.args, "client_id", None) = "other-client"
    /\ Get(request.args, "response_type", None) = "code"

\* C7: the slot is empty or holds one code: the code of the latest redirect when no
\* token was granted since, and nothing otherwise.
C7_AtMostOnePending ==
    temp_auth_code = IF issued # <<>> /\ ~spent THEN LatestIssued ELSE None

C7_Witness ==
    /\ temp_auth_code # None /\ Len(issued) >= 2 /\ prev = "token_rejected"

---------------------------------------------------------------------------
(* Claims about search and fetch of main.py and main_flask.py *)

\* the last request called the tool of main.py
IsMainTool(tool) == server = "main" /\ request.op = tool

\* the last request was a POST /search or POST /fetch of main_flask.py with a JSON body
IsFlaskEndpoint(tool) == server = "main_flask" /\ request.op = tool /\ request.body.is_json

\* the last request was a tools/call of the tool at POST /sse/ of main_flask.py
IsFlaskToolCall(tool) ==
    /\ server = "main_flask" /\ request.op = "sse" /\ request.body.is_json
    /\ Get(request.body.data, "method", None) = "tools/call"
    /\ Get(Get(request.body.data, "params", EmptyDict), "name", None) = tool

\* the calls search makes before the thread delete
SearchSteps == {"threads.create", "messages.create", "runs.create_and_poll", "messages.list"}

\* one of the external calls the handler made raised
ACallRaised == \E i \in 1..Len(calls) : calls[i] \in request.api.raises

\* a call other than the closing thread delete raised
ACallBeforeDeleteRaised ==
    \E i \in 1..Len(calls) : calls[i] \in request.api.raises /\ calls[i] # "threads.delete"

\* a search result list / a Document that carries the error flag
IsSearchError(results) == Len(results) = 1 /\ results[1].id = <<"error">>
IsDocumentError(document) == "error" \in DOMAIN document.metadata

\* a non-empty list whose first text is at most 500 + 3 characters long
NonEmptyBounded(results) ==
    Len(results) >= 1 /\ Len(results[1].text) <= TruncLen + Len(Ellipsis)

\* C8: whatever the query and whatever the assistant API does, search returns a
\* non-empty list whose first element's text is at most 503 characters long.
C8_SearchNonEmptyBounded ==
    /\ IsMainTool("search") => (~response.raised /\ NonEmptyBounded(response.value))
    /\ IsFlaskEndpoint("search")
          => (response.status = 200 /\ NonEmptyBounded(response.body))

\* C9: when thread creation, posting the message, running the assistant or listing
\* the messages raises, search does not raise and returns the one-element list of
\* the placeholder with id "error".
C9_SearchFailureGivesPlaceholder ==
    /\ (IsMainTool("search") /\ request.api.raises \cap SearchSteps # {})
          => (~response.raised /\ IsSearchError(response.value))
    /\ (IsFlaskEndpoint("search") /\ request.api.raises \cap SearchSteps # {})
          => (response.status = 200 /\ IsSearchError(response.body))

C9_Witness ==
    /\ IsMainTool("search") /\ request.api.raises = {"messages.list"}
    /\ calls[Len(calls)] = "messages.list"
    /\ IsSearchError(response.value)

\* the value a tools/call response of main_flask.py carries
ToolValue == response.body.content[1].text.json

\* C10 as claimed: when an external call of a search or fetch tool call fails, the
\* client gets a normal tool-call response and its content carries the error flag.
C10_FailureIsErrorFlagged ==
    /\ (IsFlaskToolCall("search") /\ ACallRaised)
          => (response.status = 200 /\ IsSearchError(ToolValue))
    /\ (IsFlaskToolCall("fetch") /\ ACallRaised)
          => (response.status = 200 /\ IsDocumentError(ToolValue))
    /\ (IsMainTool("search") /\ ACallRaised)
          => (~response.raised /\ IsSearchError(response.value))
    /\ (IsMainTool("fetch") /\ ACallRaised)
          => (~response.raised /\ IsDocumentError(response.value))

\* C10 as amended: the response is a normal tool-call response (HTTP 200, nothing
\* raised) whichever call fails; its content carries the error flag when a call
\* other than the closing thread delete fails, and is the result of the same call
\* with no failure when only the thread delete fails.
C10_FailureNever5xx ==
    LET clean == [request.api EXCEPT !.raises = {}]
    IN  /\ (IsFlaskToolCall("search") /\ ACallRaised)
              => /\ response.status = 200
                 /\ IF ACallBeforeDeleteRaised THEN IsSearchError(ToolValue)
                    ELSE ToolValue = search_documents(
                           Get(Get(request.body.data.params, "arguments", EmptyDict),
                               "query", <<>>), clean).value
        /\ (IsFlaskToolCall("fetch") /\ ACallRaised)
              => /\ response.status = 200
                 /\ IF ACallBeforeDeleteRaised THEN IsDocumentError(ToolValue)
                    ELSE ToolValue = fetch_document(
                           Get(Get(request.body.data.params, "arguments", EmptyDict),
                               "id", <<>>), clean).value
        /\ (IsMainTool("search") /\ ACallRaised)
              => /\ ~response.raised
                 /\ IF ACallBeforeDeleteRaised THEN IsSearchError(response.value)
                    ELSE response.value = search(request.query, clean).value
        /\ (IsMainTool("fetch") /\ ACallRaised)
              => /\ ~response.raised
                 /\ IF ACallBeforeDeleteRaised THEN IsDocumentError(response.value)
                    ELSE response.value = fetch(request.id, clean).value

C10_Witness ==
    /\ IsFlaskToolCall("fetch") /\ request.api.raises = {"files.content"}
    /\ calls = <<"files.retrieve", "files.content">>
    /\ response.status = 200 /\ IsDocumentError(ToolValue)

---------------------------------------------------------------------------
(* Claims about the tool handlers and routes of the three variants *)

\* the last request entered a fetch handler / a search handler
FetchEntered == invoked \in {<<"fetch">>, <<"fetch_document">>}
SearchEntered == invoked \in {<<"search">>, <<"search_documents">>}

\* the arguments of the tools/call of the last POST /sse/
CallArguments == Get(Get(request.body.data, "params", EmptyDict), "arguments", EmptyDict)

\* the identifier the fetch handler was entered with
FetchedId ==
    IF server = "main" THEN request.id
    ELSE IF request.op = "fetch" THEN Get(request.body.data, "id", <<>>)
    ELSE Get(CallArguments, "id", <<>>)

\* the query the search handler was entered with
SearchedQuery ==
    IF server = "main" THEN request.query
    ELSE IF request.op = "search" THEN Get(request.body.data, "query", <<>>)
    ELSE Get(CallArguments, "query", <<>>)

\* the handler made a call on a thread / began the thread round trip
NoThreadCall ==
    \A i \in 1..Len(calls) :
        calls[i] \notin {"threads.create", "messages.create", "runs.create_and_poll",
                         "messages.list", "threads.delete"}
RoundTripBegun == calls # <<>> /\ calls[1] = "threads.create"

\* the identifier starts with "file-"
IsFileId(id) == Len(id) >= 5 /\ SubSeq(id, 1, 5) = <<"f", "i", "l", "e", "-">>

\* C11 as stated: in every variant, fetch of an identifier that starts with "file-"
\* makes no call on a thread (also when the file retrieval fails), and fetch of any
\* other identifier begins the thread round trip.
C11_FilePrefixDecidesRoundTrip ==
    FetchEntered => IF IsFileId(FetchedId) THEN NoThreadCall ELSE RoundTripBegun

\* C11 as the code has it: the same for fetch of main.py and fetch_document of
\* main_flask.py, while the mock fetch_document of main_simple.py makes no external
\* call whatever the identifier.
C11_FilePrefixDecidesRoundTripExceptMock ==
    FetchEntered =>
        IF server = "main_simple" THEN calls = <<>>
        ELSE IF IsFileId(FetchedId) THEN NoThreadCall
        ELSE RoundTripBegun

\* a fetch of a "file-" identifier whose file retrieval failed, with no thread call
C11_Witness ==
    /\ FetchEntered /\ server = "main_flask" /\ IsFileId(FetchedId)
    /\ request.api.raises = {"files.retrieve"}
    /\ calls = <<"files.retrieve">>

\* the handler created a thread: the round trip began and the creation did not raise
ThreadCreated == RoundTripBegun /\ "threads.create" \notin request.api.raises

\* the handler attempted the delete of its thread
DeleteAttempted == \E i \in 1..Len(calls) : calls[i] = "threads.delete"

\* C12: every thread that search or fetch creates is released: on every exit path of
\* the handler, the paths where posting the message, running the assistant or listing
\* the messages raises included, a delete of the thread is attempted before it returns.
C12_ThreadAlwaysReleased ==
    ((SearchEntered \/ FetchEntered) /\ ThreadCreated) => DeleteAttempted

\* the API with the same outcomes, except that the thread delete succeeds
WithDeleteOk(api) == [api EXCEPT !.raises = @ \ {"threads.delete"}]

\* the handler reached the thread delete, and the delete raised
DeleteRaised ==
    /\ calls # <<>> /\ calls[Len(calls)] = "threads.delete"
    /\ "threads.delete" \in request.api.raises

\* C13: a failure of the thread delete is not propagated: search and fetch return
\* exactly the result they would have returned had the delete succeeded, and not
\* the error placeholder.
C13_DeleteFailureIsSwallowed ==
    /\ (IsMainTool("search") /\ DeleteRaised)
          => /\ ~response.raised
             /\ response.value = search(request.query, WithDeleteOk(request.api)).value
             /\ ~IsSearchError(response.value)
    /\ (IsMainTool("fetch") /\ DeleteRaised)
          => /\ ~response.raised
             /\ response.value = fetch(request.id, WithDeleteOk(request.api)).value
             /\ ~IsDocumentError(response.value)
    /\ (IsFlaskEndpoint("search") /\ DeleteRaised)
          => /\ response.status = 200
             /\ response.body = search_documents(Get(request.body.data, "query", <<>>),
                                                 WithDeleteOk(request.api)).value
             /\ ~IsSearchError(response.body)

\* a search of main_flask.py whose thread delete raised and that returned results
C13_Witness ==
    /\ IsFlaskEndpoint("search") /\ DeleteRaised
    /\ response.status = 200 /\ Len(response.body) >= 2

\* the last request was a POST /sse/ with a JSON object of method tools/call whose
\* tool name is neither search nor fetch (or is absent), and it passed the
\* Authorization check where there is one
IsUnknownToolCall ==
    /\ request.op = "sse" /\ request.body.is_json
    /\ server = "main_simple" => (request.body.kind = "object"
                                  /\ ~TokenRejected(request.header))
    /\ Get(request.body.data, "method", None) = "tools/call"
    /\ Get(Get(request.body.data, "params", EmptyDict), "name", None)
           \notin {"search", "fetch"}

\* the response is a JSON-RPC error of the code
IsRpcError(code) ==
    /\ "jsonrpc" \in DOMAIN response.body
    /\ "error" \in DOMAIN response.body
    /\ response.body.error.code = code

\* C14: in main_simple.py and main_flask.py, a POST /sse/ of method tools/call whose
\* tool name is neither "search" nor "fetch" (an absent name included) is answered
\* with the JSON-RPC error code -32602 and HTTP 400, and enters neither handler.
C14_UnknownToolIsInvalidParams ==
    IsUnknownToolCall => (response.status = 400 /\ IsRpcError(-32602) /\ invoked = <<>>)

\* the last request was a POST /sse/ of main_simple.py that passed the Authorization
\* check and whose body is JSON
IsSimpleJsonRequest ==
    /\ server = "main_simple" /\ request.op = "sse"
    /\ ~TokenRejected(request.header)
    /\ request.body.is_json

\* the body is a JSON object that has a method
HasMethod == request.body.kind = "object" /\ "method" \in DOMAIN request.body.data

\* the methods POST /sse/ knows
KnownMethods == {"initialize", "tools/list", "tools/call", "prompts/list", "resources/list"}

\* C15: at POST /sse/ of main_simple.py, a method outside initialize, tools/list,
\* tools/call, prompts/list, resources/list is answered with the JSON-RPC error
\* -32601, and every JSON body without a usable method, a body that is no JSON
\* object included, with the JSON-RPC error -32600.
C15_UnknownMethodAndInvalidRequest ==
    IsSimpleJsonRequest =>
        /\ (HasMethod /\ request.body.data["method"] \notin KnownMethods)
              => IsRpcError(-32601)
        /\ ~HasMethod => IsRpcError(-32600)

\* the last request was a POST /sse/ of main_simple.py
IsSimpleSse == server = "main_simple" /\ request.op = "sse"

\* the header starts with "Bearer " and what follows does not start with
\* "mcp_access_token"
BadBearer(h) ==
    /\ h.present
    /\ Len(h.value) >= 7 /\ SubSeq(h.value, 1, 7) = <<"B", "e", "a", "r", "e", "r", " ">>
    /\ LET token == SubSeq(h.value, 8, Len(h.value))
       IN  ~(Len(token) >= 16 /\ SubSeq(token, 1, 16) = <<"m", "c", "p", "_", "a", "c", "c", "e", "s", "s", "_", "t", "o", "k", "e", "n">>)

\* C16: the Authorization header of POST /sse/ is optional and checked by prefix. The
\* request is rejected (HTTP 401, JSON-RPC error -32001) exactly when the header starts
\* with "Bearer " and the token after it does not start with "mcp_access_token"; a
\* rejected request enters no handler; a request without the header or with a header
\* that is no Bearer header is dispatched as an authorized one is.
C16_BearerCheckedByPrefix ==
    IsSimpleSse =>
        IF BadBearer(request.header)
        THEN response.status = 401 /\ IsRpcError(-32001) /\ invoked = <<>>
        ELSE /\ response.status # 401
             /\ response = mcp_sse(ValidBearer, request.body).response
             /\ invoked = mcp_sse(ValidBearer, request.body).invoked

\* a tools/call of search with a Bearer token of the wrong prefix was rejected
C16_Witness ==
    /\ IsSimpleSse /\ BadBearer(request.header)
    /\ request.body.is_json /\ request.body.kind = "object"
    /\ Get(request.body.data, "method", None) = "tools/call"
    /\ Get(Get(request.body.data, "params", EmptyDict), "name", None) = "search"
    /\ response.status = 401 /\ invoked = <<>>

\* C17: GET /health is answered in every reachable state, whatever requests came
\* before it, with HTTP 200 and a body whose status is "healthy".
C17_HealthAlwaysHealthy ==
    /\ ENABLED HealthCheck
    /\ request.op = "health"
          => (response.status = 200 /\ response.body.status = "healthy")

\* a health check of main_simple.py answered while an authorization code is pending
C17_Witness ==
    /\ server = "main_simple" /\ request.op = "health" /\ temp_auth_code # None
    /\ response.status = 200 /\ response.body.status = "healthy"

\* C18: for the same input and the same outcomes of the external API, search_documents
\* and fetch_document of main_flask.py make the same external calls in the same order
\* and return the same result as search and fetch of main.py.
C18_FlaskEquivalentToMain ==
    /\ IsMainTool("search")
          => LET r == search_documents(request.query, request.api)
             IN  /\ calls = r.calls
                 /\ response.raised = r.raised /\ response.value = r.value
    /\ IsMainTool("fetch")
          => LET r == fetch_document(request.id, request.api)
             IN  /\ calls = r.calls
                 /\ response.raised = r.raised /\ response.value = r.value
    /\ IsFlaskEndpoint("search")
          => LET r == search(Get(request.body.data, "query", <<>>), request.api)
             IN  /\ calls = r.calls
                 /\ ~r.raised /\ response.status = 200 /\ response.body = r.value
    /\ IsFlaskEndpoint("fetch")
          => LET r == fetch(Get(request.body.data, "id", <<>>), request.api)
             IN  /\ calls = r.calls
                 /\ ~r.raised /\ response.status = 200 /\ response.body = r.value

\* a fetch of main.py that went through the whole thread round trip and returned
\* what fetch_document returns for it
C18_Witness ==
    /\ IsMainTool("fetch") /\ ~IsFileId(request.id) /\ request.api.raises = {}
    /\ Len(calls) = 5
    /\ response.value = fetch_document(request.id, request.api).value
    /\ ~IsDocumentError(response.value)

\* the text of the first content item of the assistant's first message
FirstText == request.api.messages[1].content[1].text
HasFirstText ==
    /\ request.api.messages # <<>> /\ request.api.messages[1].content # <<>>
    /\ "text" \in DOMAIN request.api.messages[1].content[1]

\* the positions of the file citations among the annotations, and the rank of one
CitedAt == {i \in 1..Len(FirstText.annotations) :
               "file_citation" \in DOMAIN FirstText.annotations[i]}
Rank(i) == Cardinality({j \in CitedAt : j <= i})

\* the results the last search returned
Results == IF server = "main" THEN response.value ELSE response.body

\* C19: when no call of the round trip fails and the assistant's first message begins
\* with text, search returns 1 + (number of file citations) results: first the
\* primary result with id search_result_<thread id> and the text cut to its first 500
\* characters plus "..." when it is longer than 500 (unchanged otherwise), then one
\* result per citation in annotation order, the i-th with the cited file id as id
\* and the title "Document i".
C19_PrimaryThenCitations ==
    ((IsMainTool("search") \/ IsFlaskEndpoint("search"))
     /\ request.api.raises \cap SearchSteps = {} /\ HasFirstText)
    => /\ Len(Results) = 1 + Cardinality(CitedAt)
       /\ Results[1].id = <<"search_result_">> \o request.api.thread_id
       /\ Results[1].text =
              IF Len(FirstText.value) > 500
              THEN SubSeq(FirstText.value, 1, 500) \o <<".", ".", ".">>
              ELSE FirstText.value
       /\ \A i \in CitedAt :
              /\ Results[1 + Rank(i)].id = FirstText.annotations[i].file_citation.file_id
              /\ Results[1 + Rank(i)].title = <<"Document ", <<"1", "2", "3">>[Rank(i)]>>

\* a search whose text is longer than 500 characters and has two file citations
\* around an annotation that is none
C19_Witness ==
    /\ IsMainTool("search") /\ request.api.raises = {} /\ HasFirstText
    /\ Len(FirstText.value) > 500 /\ Len(FirstText.annotations) = 3
    /\ Len(Results) = 3 /\ Len(Results[1].text) = 503
    /\ Results[3].id = FileId1

\* C20: an issued code is single-use also when token requests are handled
\* concurrently: with the validation and the clearing of the slot as separate steps
\* that may interleave, at most one request carrying the code is granted a token per
\* successful authorization.
C20_SingleUseUnderConcurrency == conc.grants <= 1

\* the routes of main_simple.py that are no OAuth routes and are named by C21
FrameRoutes == {"health", "sse", "search", "fetch", "mcp_oauth_config",
                "oauth_authorization_server"}

\* C21: only a successful GET /oauth/authorize and a successful POST /oauth/token
\* change the authorization code slot: a rejected authorize, a rejected token
\* request, and every request to /health, /sse/, /search, /fetch and the
\* /.well-known metadata endpoints leave the slot as it was before the request.
C21_OnlyGrantsChangeSlot ==
    /\ (IsAuthorize /\ response.status # 302) => temp_auth_code = before
    /\ (IsToken /\ response.status # 200) => temp_auth_code = before
    /\ request.op \in FrameRoutes => temp_auth_code = before
    /\ temp_auth_code # before
          => \/ IsAuthorize /\ response.status = 302
             \/ IsToken /\ Granted

\* a tools/call of search at POST /sse/ answered while a code was pending, and the
\* code is still pending after it
C21_Witness ==
    /\ server = "main_simple" /\ request.op = "sse"
    /\ invoked = <<"search_documents">>
    /\ before = mock_auth_code /\ temp_auth_code = mock_auth_code

\* the Document the last fetch returned
Document == IF server = "main" THEN response.value ELSE response.body

\* a call of the file lookup / of the thread round trip before the delete raised
FileLookupFailed == request.api.raises \cap {"files.retrieve", "files.content"} # {}
RoundTripFailed == request.api.raises \cap SearchSteps # {}

\* C22: fetch returns exactly one Document whose id equals the input identifier on
\* every path: the successful file lookup, the failed file lookup (title "File Not
\* Found", metadata carrying the error), the thread round trip with or without a
\* text response (text "No content found" when there is none), and the outer error
\* placeholder (title "Fetch Error", metadata carrying the error).
C22_FetchReturnsOneDocumentOfId ==
    (IsMainTool("fetch") \/ IsFlaskEndpoint("fetch"))
    => /\ IF server = "main" THEN ~response.raised ELSE response.status = 200
       /\ DOMAIN Document = {"id", "title", "text", "url", "metadata"}
       /\ Document.id = FetchedId
       /\ (IsFileId(FetchedId) /\ FileLookupFailed)
             => /\ Document.title = <<"File Not Found">>
                /\ DOMAIN Document.metadata = {"error"}
                /\ Document.metadata.error = request.api.err
       /\ (IsFileId(FetchedId) /\ ~FileLookupFailed)
             => /\ Document.title = request.api.file_info.filename
                /\ "error" \notin DOMAIN Document.metadata
       /\ (~IsFileId(FetchedId) /\ RoundTripFailed)
             => /\ Document.title = <<"Fetch Error">>
                /\ DOMAIN Document.metadata = {"error"}
                /\ Document.metadata.error = request.api.err
       /\ (~IsFileId(FetchedId) /\ ~RoundTripFailed)
             => /\ Document.text = IF HasFirstText THEN FirstText.value
                                   ELSE <<"No content found">>
                /\ DOMAIN Document.metadata = {}

\* a fetch of main_flask.py whose assistant run failed and that returned the Fetch
\* Error placeholder with the id it was asked for
C22_Witness ==
    /\ IsFlaskEndpoint("fetch") /\ ~IsFileId(FetchedId) /\ FetchedId # <<>>
    /\ request.api.raises = {"runs.create_and_poll"}
    /\ Document.id = FetchedId /\ Document.title = <<"Fetch Error">>

====
